---- MODULE Spec2Model ----
(***************************************************************************)
(* Semantic document store of the study assistant: the per-tenant vector   *)
(* store (app/services/vector_store.py) and the text chunker               *)
(* (app/services/pdf_processor.py).                                        *)
(***************************************************************************)
EXTENDS Integers, Sequences, FiniteSets, TLC

VARIABLES
    collections,  \* VectorStore.collections: full_name -> collection dict
    disk,         \* collections_index.json in persist_dir
    hasClient,    \* VectorStore.client is not None (OPENAI_API_KEY configured)
    lastOp,       \* the most recent call on the store: arguments and returned value
    nops,         \* number of store calls made so far
    hist,         \* what has happened to the store so far: whether every write
                  \* of the index file succeeded, and which collections ever held
                  \* a chunk
    text,         \* chunk_text: the text argument (a sequence of characters)
    chunk_size,   \* chunk_text: the chunk_size argument
    overlap,      \* chunk_text: the overlap argument
    start,        \* chunk_text: local variable start
    chunks,       \* chunk_text: local list chunks
    pc,           \* chunk_text: "loop" while the while-loop runs, "done" after return
    iters,        \* number of loop iterations executed so far
    tasks,        \* the request handlers (coroutines) of the web application: for
                  \* each, its kind, the statement it has reached and its locals
    running       \* the handler that holds the event loop's thread, 0 when the
                  \* loop is free to resume any handler

storeVars == <<collections, disk, hasClient, lastOp, nops, hist>>
chunkVars == <<text, chunk_size, overlap, start, chunks, pc, iters>>
webVars == <<tasks, running>>
vars == <<collections, disk, hasClient, lastOp, nops, hist,
          text, chunk_size, overlap, start, chunks, pc, iters, tasks, running>>

(***************************************************************************)
(* Bounds of the model                                                     *)
(***************************************************************************)
MaxOps == 3        \* store calls per behaviour
RemoteDim == 3     \* length of a vector returned by the remote embedding service
MaxLen == 5        \* characters in the text given to chunk_text
MaxChunkSize == 4  \* largest chunk_size given to chunk_text
MaxTasks == 2      \* requests in flight
MaxIters == 6      \* loop iterations of chunk_text that are followed (every call
                   \* that returns does so within MaxLen iterations)

(***************************************************************************)
(* Input domains                                                           *)
(***************************************************************************)
None == "None"                      \* Python's None
Filenames == {"notes.pdf"}

Truthy(s) == s # None /\ s # ""     \* truth value of an Optional[str]

Min(a, b) == IF a < b THEN a ELSE b
Max(a, b) == IF a > b THEN a ELSE b
Abs(a) == IF a < 0 THEN -a ELSE a

(***************************************************************************)
(* chunk_text                                                              *)
(***************************************************************************)
Chars == {"a", ".", " ", "\n"}
Whitespace == {" ", "\n"}

\* the separators in the order the code tries them
Separators == << <<".", " ">>, <<".", "\n">>, <<"\n", "\n">> >>

\* a slice bound i of a sequence of length n, as Python resolves it
SliceBound(i, n) == IF i < 0 THEN Max(i + n, 0) ELSE Min(i, n)

\* t[s:e]
Slice(t, s, e) == SubSeq(t, SliceBound(s, Len(t)) + 1, SliceBound(e, Len(t)))

\* w.rfind(sep): the highest offset (from 0) at which sep occurs in w, else -1
RFind(w, sep) ==
    LET hits == {j \in 0..(Len(w) - Len(sep)) :
                    \A k \in 1..Len(sep) : w[j + k] = sep[k]}
    IN IF hits = {} THEN -1 ELSE CHOOSE j \in hits : \A h \in hits : h <= j

\* w.strip()
Strip(w) ==
    LET keep == {j \in 1..Len(w) : w[j] \notin Whitespace}
    IN IF keep = {} THEN <<>>
       ELSE SubSeq(w, CHOOSE j \in keep : \A h \in keep : j <= h,
                      CHOOSE j \in keep : \A h \in keep : h <= j)

BreakAtLatest(t, st, end, i) ==
    LET found == {RFind(Slice(t, st, end), Separators[k]) : k \in i..Len(Separators)}
        last_sep == CHOOSE j \in found : \A h \in found : h <= j
    IN IF last_sep # -1 THEN st + last_sep + 2 ELSE end

\* the for-loop over the separators from separator i on: the end of the window
RECURSIVE BreakAt(_, _, _, _)
BreakAt(t, st, end, i) ==
    IF i > Len(Separators) THEN end
    ELSE LET last_sep == RFind(Slice(t, st, end), Separators[i])
         IN IF last_sep # -1 THEN st + last_sep + Len(Separators[i])
            ELSE BreakAt(t, st, end, i + 1)

\* end as it stands after the "if end < text_length" block
WindowEnd(t, st, size) ==
    LET end == st + size
    IN IF end < Len(t) THEN BreakAt(t, st, end, 1) ELSE end

NextStartTwiceOverlap(t, st, size, end, ov) ==
    IF end < Len(t) THEN end - 2 * ov ELSE Len(t)

NextStartNaive(t, st, size, end, ov) == IF end < Len(t) THEN st + size ELSE Len(t)

\* start = end - overlap if end < text_length else text_length
NextStart(t, st, size, end, ov) == IF end < Len(t) THEN end - ov ELSE Len(t)

EmitIndexFromOffset(chs, t, st, end) ==
    LET chunk_text_content == Strip(Slice(t, st, end))
    IN IF chunk_text_content # <<>>
       THEN Append(chs, [text |-> chunk_text_content, start_char |-> st,
                         end_char |-> end, chunk_index |-> st])
       ELSE chs

EmitUnstripped(chs, t, st, end) ==
    IF Slice(t, st, end) # <<>>
    THEN Append(chs, [text |-> Strip(Slice(t, st, end)), start_char |-> st,
                      end_char |-> end, chunk_index |-> Len(chs)])
    ELSE chs

\* chunks after the "if chunk_text_content" block
Emit(chs, t, st, end) ==
    LET chunk_text_content == Strip(Slice(t, st, end))
    IN IF chunk_text_content # <<>>
       THEN Append(chs, [text |-> chunk_text_content, start_char |-> st,
                         end_char |-> end, chunk_index |-> Len(chs)])
       ELSE chs

\* one iteration of the while-loop
ChunkStep ==
    LET end == WindowEnd(text, start, chunk_size)
        start2 == NextStart(text, start, chunk_size, end, overlap)
    IN
    /\ pc = "loop"
    /\ iters < MaxIters
    /\ chunks' = Emit(chunks, text, start, end)
    /\ start' = start2
    /\ pc' = IF start2 < Len(text) THEN "loop" ELSE "done"
    /\ iters' = iters + 1
    /\ UNCHANGED <<text, chunk_size, overlap, storeVars, webVars>>

RECURSIVE SeqsUpTo(_, _)
SeqsUpTo(S, n) ==
    IF n = 0 THEN {<<>>}
    ELSE LET shorter == SeqsUpTo(S, n - 1)
         IN shorter \cup {Append(w, c) : w \in {x \in shorter : Len(x) = n - 1}, c \in S}

\* chunk_text called with a text, chunk_size > 0 and 0 <= overlap < chunk_size
ChunkInit ==
    /\ text \in SeqsUpTo(Chars, MaxLen)
    /\ chunk_size \in 1..MaxChunkSize
    /\ overlap \in 0..(chunk_size - 1)
    /\ start = 0
    /\ chunks = <<>>
    /\ pc = IF 0 < Len(text) THEN "loop" ELSE "done"
    /\ iters = 0

\* the chunker's variables while the store is studied
ChunkIdle ==
    /\ text = <<>> /\ chunk_size = 1 /\ overlap = 0
    /\ start = 0 /\ chunks = <<>> /\ pc = "done" /\ iters = 0

(***************************************************************************)
(* Persistence                                                             *)
(***************************************************************************)
NoCollections == <<>>

\* json.dump of the collections dict: a JSON object, the set of its members
\* <<key, value>>. The keys are strings and the values are built of strings,
\* integers, floats, lists and string-keyed dicts, which JSON stores as they are.
JsonDump(cols) == {<<k, cols[k]>> : k \in DOMAIN cols}

\* json.load of a JSON object: the dict of its members
JsonLoad(members) ==
    [k \in {m[1] : m \in members} |-> (CHOOSE m \in members : m[1] = k)[2]]

\* persist_dir holds no collections_index.json
NoFile == [exists |-> FALSE, valid |-> FALSE, data |-> {}]

LoadCollectionsFresh(dsk) == NoCollections

\* _load_collections on a fresh VectorStore: the file's content when the file
\* exists and parses, and the empty dict otherwise
LoadCollections(dsk) ==
    IF dsk.exists /\ dsk.valid THEN JsonLoad(dsk.data) ELSE NoCollections

SaveCollectionsNewOnly(cols, dsk, outcome) ==
    IF outcome = "ok"
    THEN [exists |-> TRUE, valid |-> TRUE,
          data |-> dsk.data \cup {m \in JsonDump(cols) :
                                     \A old \in dsk.data : old[1] # m[1]}]
    ELSE IF outcome = "torn" THEN [exists |-> TRUE, valid |-> FALSE, data |-> {}]
    ELSE dsk

\* _save_collections; any exception is swallowed. outcome "ok": the file is
\* rewritten in full; "fail": open() raised and the file is as it was; "torn":
\* open() truncated the file and json.dump raised before completing it
SaveCollections(cols, dsk, outcome) ==
    IF outcome = "ok" THEN [exists |-> TRUE, valid |-> TRUE, data |-> JsonDump(cols)]
    ELSE IF outcome = "torn" THEN [exists |-> TRUE, valid |-> FALSE, data |-> {}]
    ELSE dsk

(***************************************************************************)
(* Embeddings                                                              *)
(***************************************************************************)
HashDim == 16

TextCode(t) == IF t = "alpha" THEN 1 ELSE 2

\* the md5-derived pseudo-embedding: a fixed function of the text, 16 components
HashVec(t) == [i \in 1..HashDim |-> (TextCode(t) * i) % 3]

\* the vector the remote service returns for a text
RemoteVec(t) == [i \in 1..RemoteDim |-> IF i = TextCode(t) THEN 1 ELSE 0]

GetEmbeddingEmptyOnError(client, t, remoteOk) ==
    IF ~client THEN HashVec(t)
    ELSE IF remoteOk THEN RemoteVec(t) ELSE <<>>

\* _get_embedding: remoteOk is whether client.embeddings.create succeeded
GetEmbedding(client, t, remoteOk) ==
    IF ~client THEN HashVec(t)
    ELSE IF remoteOk THEN RemoteVec(t) ELSE HashVec(t)

RECURSIVE SumProd(_, _, _)
SumProd(v1, v2, i) ==
    IF i > Len(v1) THEN 0 ELSE v1[i] * v2[i] + SumProd(v1, v2, i + 1)

\* A similarity is the number num / sqrt(den), den > 0.
ZeroSim == [num |-> 0, den |-> 1]

\* _cosine_similarity
CosineSimilarity(vec1, vec2) ==
    IF Len(vec1) # Len(vec2) THEN ZeroSim
    ELSE LET dot == SumProd(vec1, vec2, 1)
             n1 == SumProd(vec1, vec1, 1)
             n2 == SumProd(vec2, vec2, 1)
         IN IF n1 = 0 \/ n2 = 0 THEN ZeroSim
            ELSE [num |-> dot, den |-> n1 * n2]

\* s1 >= s2 as numbers
SimGE(s1, s2) == s1.num * Abs(s1.num) * s2.den >= s2.num * Abs(s2.num) * s1.den
SimGT(s1, s2) == ~SimGE(s2, s1)

(***************************************************************************)
(* Collections                                                             *)
(***************************************************************************)
CollectionNameShared(user_id) == "user_" \o "_study_notes"

\* f"user_{user_id}_{collection_name}" with the default collection name
CollectionName(user_id) == "user_" \o ToString(user_id) \o "_study_notes"

EmptyCollection(user_id) ==
    [name |-> CollectionName(user_id), user_id |-> ToString(user_id),
     documents |-> <<>>, embeddings |-> <<>>, metadatas |-> <<>>, ids |-> <<>>]

\* get_or_create_collection: the collections and the file after the call
GetOrCreate(cols, dsk, user_id, save) ==
    LET full_name == CollectionName(user_id) IN
    IF full_name \in DOMAIN cols
    THEN [cols |-> cols, disk |-> dsk]
    ELSE LET c2 == cols @@ (full_name :> EmptyCollection(user_id))
         IN [cols |-> c2, disk |-> SaveCollections(c2, dsk, save)]

\* f"doc_{document_id}_chunk_{chunk['chunk_index']}"
ChunkId(document_id, chunk_index) ==
    "doc_" \o ToString(document_id) \o "_chunk_" \o ToString(chunk_index)

InSeq(x, s) == \E i \in 1..Len(s) : s[i] = x

AlreadyPresentNever(col, chunk_id) == FALSE

AlreadyPresentInDocs(col, chunk_id) == InSeq(chunk_id, col.documents)

\* chunk_id in collection["ids"]
AlreadyPresent(col, chunk_id) == InSeq(chunk_id, col.ids)

Metadata(document_id, filename, subject, chunk_index) ==
    [document_id |-> ToString(document_id), filename |-> filename,
     subject |-> IF Truthy(subject) THEN subject ELSE "general",
     chunk_index |-> chunk_index]

AppendChunkNoMeta(col, chunk_id, t, embedding, metadata) ==
    [col EXCEPT !.ids = Append(@, chunk_id),
                !.documents = Append(@, t),
                !.embeddings = Append(@, embedding)]

\* the four appends of one loop iteration
AppendChunk(col, chunk_id, t, embedding, metadata) ==
    [col EXCEPT !.ids = Append(@, chunk_id),
                !.documents = Append(@, t),
                !.embeddings = Append(@, embedding),
                !.metadatas = Append(@, metadata)]

\* the for-loop of add_document_chunks from chunk i on; oks[i] is the outcome
\* of the remote embedding call made for chunk i (FALSE when none is made)
RECURSIVE AddLoop(_, _, _, _, _, _, _, _)
AddLoop(col, client, document_id, chs, filename, subject, oks, i) ==
    IF i > Len(chs) THEN col
    ELSE LET chunk == chs[i]
             chunk_id == ChunkId(document_id, chunk.chunk_index)
         IN IF AlreadyPresent(col, chunk_id)
            THEN AddLoop(col, client, document_id, chs, filename, subject, oks, i + 1)
            ELSE AddLoop(
                   AppendChunk(col, chunk_id, chunk.text,
                               GetEmbedding(client, chunk.text, oks[i]),
                               Metadata(document_id, filename, subject, chunk.chunk_index)),
                   client, document_id, chs, filename, subject, oks, i + 1)

\* _get_embedding is called for chunk i of the batch: the chunk is not skipped,
\* its id being neither in the collection nor that of an earlier chunk
EmbeddingCalled(col, document_id, chs, i) ==
    /\ ~AlreadyPresent(col, ChunkId(document_id, chs[i].chunk_index))
    /\ \A j \in 1..(i - 1) : chs[j].chunk_index # chs[i].chunk_index

\* return len(chunks)
AddReturn(col_before, col_after, chs) == Len(chs)

(***************************************************************************)
(* search                                                                  *)
(***************************************************************************)
PassesFilterAlways(subject_filter, metadata) == TRUE

\* the item is kept unless "subject_filter and metadata.get('subject') != subject_filter"
PassesFilter(subject_filter, metadata) ==
    ~(Truthy(subject_filter) /\ metadata.subject # subject_filter)

\* an index error inside the try block of search (a list shorter than embeddings)
SearchRaises(col, subject_filter) ==
    \E i \in 1..Len(col.embeddings) :
        \/ i > Len(col.metadatas)
        \/ /\ \A j \in 1..i : j <= Len(col.metadatas)
           /\ PassesFilter(subject_filter, col.metadatas[i])
           /\ i > Len(col.documents)

\* the enumeration loop of search from position i on
RECURSIVE Similarities(_, _, _, _)
Similarities(col, query_embedding, subject_filter, i) ==
    IF i > Len(col.embeddings) THEN <<>>
    ELSE LET metadata == col.metadatas[i]
             rest == Similarities(col, query_embedding, subject_filter, i + 1)
         IN IF ~PassesFilter(subject_filter, metadata) THEN rest
            ELSE <<[index |-> i,
                    similarity |-> CosineSimilarity(query_embedding, col.embeddings[i]),
                    text |-> col.documents[i],
                    metadata |-> metadata]>> \o rest

\* x placed into a list sorted by descending similarity, behind its equals
RECURSIVE InsertDesc(_, _)
InsertDescBeforeEquals(s, x) ==
    IF s = <<>> THEN <<x>>
    ELSE IF SimGE(x.similarity, Head(s).similarity) THEN <<x>> \o s
    ELSE <<Head(s)>> \o InsertDesc(Tail(s), x)

InsertDesc(s, x) ==
    IF s = <<>> THEN <<x>>
    ELSE IF SimGT(x.similarity, Head(s).similarity) THEN <<x>> \o s
    ELSE <<Head(s)>> \o InsertDesc(Tail(s), x)

RECURSIVE SortFrom(_, _, _)
SortFrom(s, i, acc) ==
    IF i > Len(s) THEN acc ELSE SortFrom(s, i + 1, InsertDesc(acc, s[i]))

SortUnsorted(s) == s

\* similarities.sort(key=similarity, reverse=True): a stable sort
SortDesc(s) == SortFrom(s, 1, <<>>)

\* s[:n] on a Python list
TakeFirst(s, n) ==
    LET k == IF n < 0 THEN Max(Len(s) + n, 0) ELSE Min(n, Len(s))
    IN SubSeq(s, 1, k)

FormatResult(item) ==
    [text |-> item.text, metadata |-> item.metadata,
     distance |-> [one_minus |-> item.similarity],
     relevance_score |-> item.similarity]

\* the try block of search once the query is embedded
RankedResults(col, query_embedding, n_results, subject_filter) ==
    IF SearchRaises(col, subject_filter) THEN <<>>
    ELSE LET sorted == SortDesc(Similarities(col, query_embedding, subject_filter, 1))
             top == TakeFirst(sorted, n_results)
         IN [i \in 1..Len(top) |-> FormatResult(top[i])]

SearchResultEmptyOnFailure(col, client, query, n_results, subject_filter, remoteOk) ==
    IF col.documents = <<>> \/ (client /\ ~remoteOk) THEN <<>>
    ELSE RankedResults(col, GetEmbedding(client, query, remoteOk),
                       n_results, subject_filter)

\* the value search returns on a collection
SearchResult(col, client, query, n_results, subject_filter, remoteOk) ==
    IF col.documents = <<>> THEN <<>>
    ELSE RankedResults(col, GetEmbedding(client, query, remoteOk),
                       n_results, subject_filter)

(***************************************************************************)
(* delete_document                                                         *)
(***************************************************************************)
IndicesToDeleteAll(col, document_id, i) == [k \in 1..Len(col.metadatas) |-> k]

\* positions (from 1) whose metadata document_id equals str(document_id), ascending
RECURSIVE IndicesToDelete(_, _, _)
IndicesToDelete(col, document_id, i) ==
    IF i > Len(col.metadatas) THEN <<>>
    ELSE (IF col.metadatas[i].document_id = ToString(document_id) THEN <<i>> ELSE <<>>)
         \o IndicesToDelete(col, document_id, i + 1)

Reverse(s) == [i \in 1..Len(s) |-> s[Len(s) + 1 - i]]

DeleteOrderForward(idxs) == idxs

\* reversed(indices_to_delete)
DeleteOrder(idxs) == Reverse(idxs)

PopAt(s, i) == SubSeq(s, 1, i - 1) \o SubSeq(s, i + 1, Len(s))

PopFourMetaLast(col, i) ==
    IF i > Len(col.ids) THEN [col |-> col, raised |-> TRUE]
    ELSE [col |-> [col EXCEPT !.ids = PopAt(@, i),
                              !.documents = PopAt(@, i),
                              !.embeddings = PopAt(@, i),
                              !.metadatas = PopAt(@, Len(@))],
          raised |-> FALSE]

PopFourIdsOnly(col, i) ==
    IF i > Len(col.ids) THEN [col |-> col, raised |-> TRUE]
    ELSE [col |-> [col EXCEPT !.ids = PopAt(@, i)], raised |-> FALSE]

\* the four pops of one loop iteration; a pop past the end of a list raises
PopFour(col, i) ==
    IF i > Len(col.ids) THEN [col |-> col, raised |-> TRUE]
    ELSE LET c1 == [col EXCEPT !.ids = PopAt(@, i)] IN
    IF i > Len(c1.documents) THEN [col |-> c1, raised |-> TRUE]
    ELSE LET c2 == [c1 EXCEPT !.documents = PopAt(@, i)] IN
    IF i > Len(c2.embeddings) THEN [col |-> c2, raised |-> TRUE]
    ELSE LET c3 == [c2 EXCEPT !.embeddings = PopAt(@, i)] IN
    IF i > Len(c3.metadatas) THEN [col |-> c3, raised |-> TRUE]
    ELSE [col |-> [c3 EXCEPT !.metadatas = PopAt(@, i)], raised |-> FALSE]

RECURSIVE DeleteLoop(_, _)
DeleteLoopNothingIsFailure(col, idxs) ==
    IF idxs = <<>> THEN [col |-> col, raised |-> TRUE]
    ELSE LET r == PopFour(col, Head(idxs))
         IN IF r.raised \/ Tail(idxs) = <<>> THEN r ELSE DeleteLoop(r.col, Tail(idxs))

\* the loop over reversed(indices_to_delete)
DeleteLoop(col, idxs) ==
    IF idxs = <<>> THEN [col |-> col, raised |-> FALSE]
    ELSE LET r == PopFour(col, Head(idxs))
         IN IF r.raised THEN r ELSE DeleteLoop(r.col, Tail(idxs))

(***************************************************************************)
(* The store's operations                                                  *)
(***************************************************************************)
NoOp == [op |-> "none", user |-> 0, doc |-> 0, chunks |-> <<>>, subject |-> None,
         query |-> None, n |-> 0, filter |-> None, remote |-> <<>>, ret |-> None,
         sizeBefore |-> 0, repeats |-> FALSE, created |-> FALSE, wrote |-> "none",
         mem |-> NoCollections]

\* number of entries the user's collection holds (0 when it does not exist)
SizeOf(cols, user_id) ==
    IF CollectionName(user_id) \in DOMAIN cols
    THEN Len(cols[CollectionName(user_id)].ids) ELSE 0

\* the outcomes of the remote embedding calls made for a batch of n chunks
OkChoices(n) == IF hasClient THEN [1..n -> BOOLEAN] ELSE {[i \in 1..n |-> FALSE]}

\* the outcomes of the write made when the user's collection is created
CreateSaves(user_id, saves) ==
    IF CollectionName(user_id) \in DOMAIN collections THEN {"ok"} ELSE saves

\* the call finds no collection of the user and creates it
Creates(user_id) == CollectionName(user_id) \notin DOMAIN collections

\* the outcomes of the calls of _save_collections one store call makes, in
\* order: the one in get_or_create_collection when the collection is created,
\* then the one at the end of the call when it has one
Attempts(user_id, save1, second, save2) ==
    (IF Creates(user_id) THEN <<save1>> ELSE <<>>)
        \o (IF second THEN <<save2>> ELSE <<>>)

LastWrite(att) == IF att = <<>> THEN "none" ELSE att[Len(att)]

\* hist after a call that made the writes att and left the collections cols
HistAfter(att, cols) ==
    [writesOk |-> hist.writesOk /\ \A i \in 1..Len(att) : att[i] = "ok",
     stored |-> hist.stored \cup {k \in DOMAIN cols : cols[k].ids # <<>>}]

GetOrCreateCollection(user_id, save) ==
    LET r == GetOrCreate(collections, disk, user_id, save)
        att == Attempts(user_id, save, FALSE, save)
    IN
    /\ nops < MaxOps
    /\ collections' = r.cols
    /\ disk' = r.disk
    /\ lastOp' = [NoOp EXCEPT !.op = "get_or_create", !.user = user_id,
                              !.ret = CollectionName(user_id),
                              !.sizeBefore = SizeOf(collections, user_id),
                              !.created = Creates(user_id),
                              !.wrote = LastWrite(att)]
    /\ nops' = nops + 1
    /\ hist' = HistAfter(att, r.cols)
    /\ UNCHANGED <<hasClient, chunkVars, webVars>>

AddDocumentChunks(user_id, document_id, chs, filename, subject, oks, save1, save2) ==
    LET r == GetOrCreate(collections, disk, user_id, save1)
        collection_name == CollectionName(user_id)
        before == r.cols[collection_name]
        after == AddLoop(before, hasClient, document_id, chs, filename, subject, oks, 1)
        cols2 == [r.cols EXCEPT ![collection_name] = after]
        att == Attempts(user_id, save1, TRUE, save2)
    IN
    /\ nops < MaxOps
    /\ \A i \in 1..Len(chs) : oks[i] => EmbeddingCalled(before, document_id, chs, i)
    /\ collections' = cols2
    /\ disk' = SaveCollections(cols2, r.disk, save2)
    /\ lastOp' = [NoOp EXCEPT !.op = "add", !.user = user_id, !.doc = document_id,
                              !.chunks = chs, !.subject = subject,
                              !.remote = oks,
                              !.ret = AddReturn(before, after, chs),
                              !.sizeBefore = SizeOf(collections, user_id),
                              !.repeats = /\ lastOp.op = "add"
                                          /\ lastOp.user = user_id
                                          /\ lastOp.doc = document_id
                                          /\ lastOp.chunks = chs,
                              !.created = Creates(user_id),
                              !.wrote = LastWrite(att)]
    /\ nops' = nops + 1
    /\ hist' = HistAfter(att, cols2)
    /\ UNCHANGED <<hasClient, chunkVars, webVars>>

Search(user_id, query, n_results, subject_filter, remoteOk, save) ==
    LET r == GetOrCreate(collections, disk, user_id, save)
        collection == r.cols[CollectionName(user_id)]
        att == Attempts(user_id, save, FALSE, save)
    IN
    /\ nops < MaxOps
    /\ collections' = r.cols
    /\ disk' = r.disk
    /\ lastOp' = [NoOp EXCEPT !.op = "search", !.user = user_id,
                              !.query = query,
                              !.n = n_results, !.filter = subject_filter,
                              !.remote = <<remoteOk>>,
                              !.ret = SearchResult(collection, hasClient, query,
                                                   n_results, subject_filter, remoteOk),
                              !.sizeBefore = SizeOf(collections, user_id),
                              !.created = Creates(user_id),
                              !.wrote = LastWrite(att)]
    /\ nops' = nops + 1
    /\ hist' = HistAfter(att, r.cols)
    /\ UNCHANGED <<hasClient, chunkVars, webVars>>

DeleteDocument(user_id, document_id, save1, save2) ==
    LET r == GetOrCreate(collections, disk, user_id, save1)
        collection_name == CollectionName(user_id)
        collection == r.cols[collection_name]
        d == DeleteLoop(collection,
                        DeleteOrder(IndicesToDelete(collection, document_id, 1)))
        cols2 == [r.cols EXCEPT ![collection_name] = d.col]
        att == Attempts(user_id, save1, ~d.raised, save2)
    IN
    /\ nops < MaxOps
    /\ collections' = cols2
    /\ disk' = IF d.raised THEN r.disk ELSE SaveCollections(cols2, r.disk, save2)
    /\ lastOp' = [NoOp EXCEPT !.op = "delete", !.user = user_id, !.doc = document_id,
                              !.ret = ~d.raised,
                              !.sizeBefore = SizeOf(collections, user_id),
                              !.created = Creates(user_id),
                              !.wrote = LastWrite(att)]
    /\ nops' = nops + 1
    /\ hist' = HistAfter(att, cols2)
    /\ UNCHANGED <<hasClient, chunkVars, webVars>>

GetCollectionStats(user_id, save) ==
    LET r == GetOrCreate(collections, disk, user_id, save)
        collection == r.cols[CollectionName(user_id)]
        att == Attempts(user_id, save, FALSE, save)
    IN
    /\ nops < MaxOps
    /\ collections' = r.cols
    /\ disk' = r.disk
    /\ lastOp' = [NoOp EXCEPT !.op = "stats", !.user = user_id,
                              !.ret = [total_chunks |-> Len(collection.documents)],
                              !.sizeBefore = SizeOf(collections, user_id),
                              !.created = Creates(user_id),
                              !.wrote = LastWrite(att)]
    /\ nops' = nops + 1
    /\ hist' = HistAfter(att, r.cols)
    /\ UNCHANGED <<hasClient, chunkVars, webVars>>

\* the process ends between two calls and a new VectorStore is constructed on
\* the same persist_dir: __init__ runs _load_collections
Restart ==
    /\ nops < MaxOps
    /\ collections' = LoadCollections(disk)
    /\ lastOp' = [NoOp EXCEPT !.op = "restart", !.mem = collections]
    /\ nops' = nops + 1
    /\ UNCHANGED <<disk, hasClient, hist, chunkVars, webVars>>

\* where a process can die in a mutating call once the lists are changed:
\* before _save_collections is reached, or inside it, after open(..., 'w') has
\* truncated the file and before json.dump has written all of it
CrashPoints == {"before_save", "in_save"}

\* the file a process leaves that dies at the point, the collections being cols
FileAtCrash(cols, dsk, point) ==
    IF point = "in_save" THEN SaveCollections(cols, dsk, "torn") ELSE dsk

\* add_document_chunks in a process that dies at the point, followed by the
\* construction of a new VectorStore. lastOp.mem is the in-memory state the
\* dead process held.
CrashInAddDocumentChunks(user_id, document_id, chs, filename, subject, oks, point) ==
    LET r == GetOrCreate(collections, disk, user_id, "ok")
        collection_name == CollectionName(user_id)
        before == r.cols[collection_name]
        after == AddLoop(before, hasClient, document_id, chs, filename, subject, oks, 1)
        cols2 == [r.cols EXCEPT ![collection_name] = after]
        file == FileAtCrash(cols2, r.disk, point)
    IN
    /\ nops < MaxOps
    /\ disk' = file
    /\ collections' = LoadCollections(file)
    /\ lastOp' = [NoOp EXCEPT !.op = "crash_add", !.user = user_id,
                              !.doc = document_id, !.chunks = chs,
                              !.remote = oks,
                              !.sizeBefore = SizeOf(collections, user_id),
                              !.created = Creates(user_id),
                              !.wrote = IF point = "in_save" THEN "torn" ELSE "none",
                              !.mem = cols2]
    /\ nops' = nops + 1
    /\ hist' = [HistAfter(<<>>, cols2) EXCEPT
                   !.writesOk = hist.writesOk /\ point # "in_save"]
    /\ UNCHANGED <<hasClient, chunkVars, webVars>>

\* delete_document in a process that dies at the point, followed by the
\* construction of a new VectorStore
CrashInDeleteDocument(user_id, document_id, point) ==
    LET r == GetOrCreate(collections, disk, user_id, "ok")
        collection_name == CollectionName(user_id)
        collection == r.cols[collection_name]
        d == DeleteLoop(collection,
                        DeleteOrder(IndicesToDelete(collection, document_id, 1)))
        cols2 == [r.cols EXCEPT ![collection_name] = d.col]
        file == FileAtCrash(cols2, r.disk, point)
    IN
    /\ nops < MaxOps
    /\ ~d.raised
    /\ disk' = file
    /\ collections' = LoadCollections(file)
    /\ lastOp' = [NoOp EXCEPT !.op = "crash_delete", !.user = user_id,
                              !.doc = document_id,
                              !.sizeBefore = SizeOf(collections, user_id),
                              !.created = Creates(user_id),
                              !.wrote = IF point = "in_save" THEN "torn" ELSE "none",
                              !.mem = cols2]
    /\ nops' = nops + 1
    /\ hist' = [HistAfter(<<>>, cols2) EXCEPT
                   !.writesOk = hist.writesOk /\ point # "in_save"]
    /\ UNCHANGED <<hasClient, chunkVars, webVars>>

NoHist == [writesOk |-> TRUE, stored |-> {}]

\* the store after construction on an empty persist_dir, with or without an
\* API key
StoreInit(clients) ==
    /\ collections = NoCollections
    /\ disk = NoFile
    /\ hasClient \in clients
    /\ lastOp = NoOp
    /\ nops = 0
    /\ hist = NoHist

\* one call on the store, its arguments drawn from the domains of dom
StoreNext(dom) ==
    \/ \E u \in dom.users : \E s \in CreateSaves(u, dom.saves) :
          GetOrCreateCollection(u, s)
    \/ \E u \in dom.users, d \in dom.docs, f \in Filenames,
          sub \in dom.subjects, s2 \in dom.saves :
          \E chs \in dom.batches[u], s1 \in CreateSaves(u, dom.saves) :
            \E oks \in OkChoices(Len(chs)) :
             AddDocumentChunks(u, d, chs, f, sub, oks, s1, s2)
    \/ \E u \in dom.users, q \in dom.queries, n \in dom.ns, flt \in dom.filters,
          ok \in (IF hasClient THEN BOOLEAN ELSE {FALSE}) :
          \E s \in CreateSaves(u, dom.saves) : Search(u, q, n, flt, ok, s)
    \/ \E u \in dom.users, d \in dom.docs, s2 \in dom.saves :
          \E s1 \in CreateSaves(u, dom.saves) : DeleteDocument(u, d, s1, s2)
    \/ \E u \in dom.users : \E s \in CreateSaves(u, dom.saves) :
          GetCollectionStats(u, s)

c0a == [chunk_index |-> 0, text |-> "alpha"]
c0b == [chunk_index |-> 0, text |-> "beta"]
c1a == [chunk_index |-> 1, text |-> "alpha"]
c1b == [chunk_index |-> 1, text |-> "beta"]
c2a == [chunk_index |-> 2, text |-> "alpha"]

Tenants == {1, 2}

\* one tenant ingesting and deleting two documents
IngestDomain ==
    [users |-> {1}, docs |-> {1, 2},
     batches |-> [u \in {1} |-> {<<>>, <<c0a>>, <<c0a, c1b>>, <<c0b, c0a>>}],
     subjects |-> {None}, queries |-> {"alpha"}, ns |-> {1}, filters |-> {None},
     saves |-> {"ok", "fail"}]

\* one tenant searching documents of several subjects
SearchDomain ==
    [users |-> {1}, docs |-> {1},
     batches |-> [u \in {1} |-> {<<c0a, c1b>>, <<c2a>>}],
     subjects |-> {"math", "history"}, queries |-> {"alpha", "beta"},
     ns |-> {-1, 1, 2}, filters |-> {None, "", "math"},
     saves |-> {"ok"}]

\* two tenants using the same document ids; tenant 1 ingests only the text
\* "alpha" and tenant 2 only the text "beta"
TenantDomain ==
    [users |-> Tenants, docs |-> {1},
     batches |-> (1 :> {<<c0a>>, <<c0a, c1a>>}) @@ (2 :> {<<c0b>>, <<c0b, c1b>>}),
     subjects |-> {None}, queries |-> {"alpha", "beta"}, ns |-> {2},
     filters |-> {None}, saves |-> {"ok"}]

TextsOf(u) == IF u = 1 THEN {"alpha"} ELSE {"beta"}

(***************************************************************************)
(* The request handlers of app/routers/knowledge.py on the event loop       *)
(***************************************************************************)
WebUser == 1                  \* the demo user every handler works for
WebBatch == <<c0a, c1b>>      \* processed['chunks'] of an uploaded file
WebQuery == "alpha"           \* request.question

NoTask == [kind |-> "none", pc |-> "idle", doc |-> 0, i |-> 0, idxs |-> <<>>,
           embedding |-> <<>>, ret |-> None]

\* no request has arrived
WebIdle ==
    /\ tasks = [t \in 1..MaxTasks |-> NoTask]
    /\ running = 0

YieldsAtEmbedding(point) == point \in {"await_read", "done", "add_embed"}

YieldsAtEveryStatement(point) == TRUE

\* the statements at which a handler gives the thread back to the event loop.
\* The handlers are coroutines (async def); the only await in them is
\* "await file.read()" of upload_document, the calls on vector_store are plain
\* calls, and a handler that has returned holds nothing.
YieldsAt(point) == point \in {"await_read", "done"}

\* the event loop can run the next statement of handler t
Runnable(t) == running = 0 \/ running = t

At(t, point) == tasks[t].pc = point /\ Runnable(t)

\* handler t moves to the statement point with the locals task
Goto(t, point, task) ==
    /\ tasks' = [tasks EXCEPT ![t] = [task EXCEPT !.pc = point]]
    /\ running' = IF YieldsAt(point) THEN 0 ELSE t

WebCollection == collections[CollectionName(WebUser)]

\* the documents table holds a record with this id: upload_document commits
\* the record before it calls add_document_chunks
HasRecord(d) ==
    \E u \in 1..MaxTasks : tasks[u].kind = "upload" /\ tasks[u].doc = d

\* a request arrives and its handler is scheduled on the event loop
StartRequest(t, kind, d) ==
    /\ At(t, "idle")
    /\ kind = "delete" => HasRecord(d)
    /\ tasks' = [tasks EXCEPT ![t] =
                   [NoTask EXCEPT !.kind = kind,
                                  !.doc = IF kind = "delete" THEN d ELSE 0,
                                  !.pc = CASE kind = "upload" -> "await_read"
                                           [] kind = "delete" -> "delete_call"
                                           [] OTHER -> "search_call"]]
    /\ running' = running
    /\ UNCHANGED <<storeVars, chunkVars>>

\* upload_document after "await file.read()": the file is saved and processed
\* and the document record is committed, which gives the document its id
UploadCommit(t) ==
    /\ At(t, "await_read")
    /\ Goto(t, "add_call", [tasks[t] EXCEPT !.doc = t])
    /\ UNCHANGED <<storeVars, chunkVars>>

\* the first two statements of add_document_chunks
AddCall(t) ==
    LET r == GetOrCreate(collections, disk, WebUser, "ok") IN
    /\ At(t, "add_call")
    /\ collections' = r.cols
    /\ disk' = r.disk
    /\ Goto(t, "add_check", [tasks[t] EXCEPT !.i = 1])
    /\ UNCHANGED <<hasClient, lastOp, nops, hist, chunkVars>>

\* "for chunk in chunks" and "if chunk_id in collection['ids']: continue"
AddCheck(t) ==
    LET task == tasks[t] IN
    /\ At(t, "add_check")
    /\ IF task.i > Len(WebBatch) THEN Goto(t, "add_save", task)
       ELSE IF AlreadyPresent(WebCollection,
                              ChunkId(task.doc, WebBatch[task.i].chunk_index))
            THEN Goto(t, "add_check", [task EXCEPT !.i = @ + 1])
            ELSE Goto(t, "add_embed", task)
    /\ UNCHANGED <<storeVars, chunkVars>>

\* embedding = self._get_embedding(text)
AddEmbed(t, remoteOk) ==
    /\ At(t, "add_embed")
    /\ Goto(t, "add_ids",
            [tasks[t] EXCEPT !.embedding =
                GetEmbedding(hasClient, WebBatch[tasks[t].i].text, remoteOk)])
    /\ UNCHANGED <<storeVars, chunkVars>>

AppendPoints == <<"add_ids", "add_documents", "add_embeddings", "add_metadatas">>

\* position of a statement in a list of statements
IndexOf(points, point) == CHOOSE k \in 1..Len(points) : points[k] = point

\* one of the four append statements of add_document_chunks
AppendStep(t) ==
    LET task == tasks[t]
        chunk == WebBatch[task.i]
        k == IndexOf(AppendPoints, task.pc)
        col == WebCollection
        col2 == CASE k = 1 -> [col EXCEPT !.ids =
                                  Append(@, ChunkId(task.doc, chunk.chunk_index))]
                  [] k = 2 -> [col EXCEPT !.documents = Append(@, chunk.text)]
                  [] k = 3 -> [col EXCEPT !.embeddings = Append(@, task.embedding)]
                  [] OTHER -> [col EXCEPT !.metadatas =
                                  Append(@, Metadata(task.doc, "notes.pdf", "general",
                                                     chunk.chunk_index))]
    IN
    /\ InSeq(task.pc, AppendPoints) /\ Runnable(t)
    /\ collections' = [collections EXCEPT ![CollectionName(WebUser)] = col2]
    /\ IF k < 4 THEN Goto(t, AppendPoints[k + 1], task)
       ELSE Goto(t, "add_check", [task EXCEPT !.i = @ + 1])
    /\ UNCHANGED <<disk, hasClient, lastOp, nops, hist, chunkVars>>

\* self._save_collections() and "return len(chunks)"
AddSave(t) ==
    /\ At(t, "add_save")
    /\ disk' = SaveCollections(collections, disk, "ok")
    /\ Goto(t, "done", [tasks[t] EXCEPT !.ret = Len(WebBatch)])
    /\ UNCHANGED <<collections, hasClient, lastOp, nops, hist, chunkVars>>

\* the first two statements of delete_document
DeleteCall(t) ==
    LET r == GetOrCreate(collections, disk, WebUser, "ok") IN
    /\ At(t, "delete_call")
    /\ collections' = r.cols
    /\ disk' = r.disk
    /\ Goto(t, "delete_scan", tasks[t])
    /\ UNCHANGED <<hasClient, lastOp, nops, hist, chunkVars>>

\* the loop of delete_document that collects indices_to_delete
DeleteScan(t) ==
    LET idxs == DeleteOrder(IndicesToDelete(WebCollection, tasks[t].doc, 1)) IN
    /\ At(t, "delete_scan")
    /\ Goto(t, IF idxs = <<>> THEN "delete_save" ELSE "pop_ids",
            [tasks[t] EXCEPT !.idxs = idxs])
    /\ UNCHANGED <<storeVars, chunkVars>>

PopPoints == <<"pop_ids", "pop_documents", "pop_embeddings", "pop_metadatas">>

\* one of the four pop statements of delete_document; a pop past the end of
\* its list raises and delete_document returns False
PopStep(t) ==
    LET task == tasks[t]
        idx == Head(task.idxs)
        k == IndexOf(PopPoints, task.pc)
        col == WebCollection
        list == CASE k = 1 -> col.ids [] k = 2 -> col.documents
                  [] k = 3 -> col.embeddings [] OTHER -> col.metadatas
        col2 == CASE k = 1 -> [col EXCEPT !.ids = PopAt(@, idx)]
                  [] k = 2 -> [col EXCEPT !.documents = PopAt(@, idx)]
                  [] k = 3 -> [col EXCEPT !.embeddings = PopAt(@, idx)]
                  [] OTHER -> [col EXCEPT !.metadatas = PopAt(@, idx)]
    IN
    /\ InSeq(task.pc, PopPoints) /\ Runnable(t)
    /\ IF idx > Len(list)
       THEN /\ UNCHANGED collections
            /\ Goto(t, "done", [task EXCEPT !.ret = FALSE])
       ELSE /\ collections' = [collections EXCEPT ![CollectionName(WebUser)] = col2]
            /\ IF k < 4 THEN Goto(t, PopPoints[k + 1], task)
               ELSE Goto(t, IF Tail(task.idxs) = <<>> THEN "delete_save" ELSE "pop_ids",
                         [task EXCEPT !.idxs = Tail(@)])
    /\ UNCHANGED <<disk, hasClient, lastOp, nops, hist, chunkVars>>

\* self._save_collections() and "return True"
DeleteSave(t) ==
    /\ At(t, "delete_save")
    /\ disk' = SaveCollections(collections, disk, "ok")
    /\ Goto(t, "done", [tasks[t] EXCEPT !.ret = TRUE])
    /\ UNCHANGED <<collections, hasClient, lastOp, nops, hist, chunkVars>>

\* search up to "if not collection['documents']: return []"
SearchCall(t) ==
    LET r == GetOrCreate(collections, disk, WebUser, "ok") IN
    /\ At(t, "search_call")
    /\ collections' = r.cols
    /\ disk' = r.disk
    /\ IF r.cols[CollectionName(WebUser)].documents = <<>>
       THEN Goto(t, "done", [tasks[t] EXCEPT !.ret = <<>>])
       ELSE Goto(t, "search_embed", tasks[t])
    /\ UNCHANGED <<hasClient, lastOp, nops, hist, chunkVars>>

\* query_embedding = self._get_embedding(query)
SearchEmbed(t, remoteOk) ==
    /\ At(t, "search_embed")
    /\ Goto(t, "search_enum",
            [tasks[t] EXCEPT !.embedding = GetEmbedding(hasClient, WebQuery, remoteOk)])
    /\ UNCHANGED <<storeVars, chunkVars>>

\* the rest of search: the enumeration of the lists, the sort and the return
SearchEnum(t) ==
    /\ At(t, "search_enum")
    /\ Goto(t, "done",
            [tasks[t] EXCEPT !.ret = RankedResults(WebCollection, tasks[t].embedding,
                                                   5, None)])
    /\ UNCHANGED <<storeVars, chunkVars>>

RemoteOutcomes == IF hasClient THEN BOOLEAN ELSE {FALSE}

NextWeb ==
    \E t \in 1..MaxTasks :
        \/ \E kind \in {"upload", "delete", "ask"}, d \in 1..MaxTasks :
              StartRequest(t, kind, d)
        \/ UploadCommit(t)
        \/ AddCall(t)
        \/ AddCheck(t)
        \/ \E ok \in RemoteOutcomes : AddEmbed(t, ok)
        \/ AppendStep(t)
        \/ AddSave(t)
        \/ DeleteCall(t)
        \/ DeleteScan(t)
        \/ PopStep(t)
        \/ DeleteSave(t)
        \/ SearchCall(t)
        \/ \E ok \in RemoteOutcomes : SearchEmbed(t, ok)
        \/ SearchEnum(t)

Init == StoreInit(BOOLEAN) /\ ChunkIdle /\ WebIdle

InitSearch == StoreInit({TRUE}) /\ ChunkIdle /\ WebIdle

Next == StoreNext(IngestDomain)

Spec == Init /\ [][Next]_vars

NextSearch == StoreNext(SearchDomain)

SpecSearch == InitSearch /\ [][NextSearch]_vars

NextTenants == StoreNext(TenantDomain)

SpecTenants == Init /\ [][NextTenants]_vars

\* the store's variables while the chunker is studied
StoreIdle ==
    /\ collections = NoCollections
    /\ disk = NoFile
    /\ hasClient = FALSE
    /\ lastOp = NoOp
    /\ nops = 0
    /\ hist = NoHist

InitChunk == ChunkInit /\ StoreIdle /\ WebIdle

\* the handlers of the web application, one request each
SpecWeb == Init /\ [][NextWeb]_vars

NextChunk == ChunkStep

SpecChunk == InitChunk /\ [][NextChunk]_vars

(***************************************************************************)
(* Properties                                                              *)
(***************************************************************************)
\* total_chunks as get_collection_stats reports it for the user
StatsOf(cols, user_id) ==
    IF CollectionName(user_id) \in DOMAIN cols
    THEN Len(cols[CollectionName(user_id)].documents) ELSE 0

\* number of entries of the user's collection whose metadata names the document
CountDoc(cols, user_id, document_id) ==
    IF CollectionName(user_id) \in DOMAIN cols
    THEN Cardinality({i \in 1..Len(cols[CollectionName(user_id)].metadatas) :
            cols[CollectionName(user_id)].metadatas[i].document_id = ToString(document_id)})
    ELSE 0

\* C1: after any sequence of store calls, made one at a time and with the
\* embedding provider free to fail, the four sequences ids, documents,
\* embeddings and metadatas of every collection have the same length.
C1_EqualLengths ==
    \A name \in DOMAIN collections :
        /\ Len(collections[name].documents) = Len(collections[name].ids)
        /\ Len(collections[name].embeddings) = Len(collections[name].ids)
        /\ Len(collections[name].metadatas) = Len(collections[name].ids)

C1_Witness ==
    /\ hasClient
    /\ lastOp.op = "delete" /\ lastOp.ret = TRUE
    /\ SizeOf(collections, lastOp.user) >= 1
    /\ lastOp.sizeBefore > SizeOf(collections, lastOp.user)
    /\ \E i \in 1..SizeOf(collections, lastOp.user) :
          Len(collections[CollectionName(lastOp.user)].embeddings[i]) = HashDim

\* C2: no id occurs twice in the ids of a collection, also after a batch that
\* holds two chunks with the same chunk_index (only the first is stored).
C2_UniqueIds ==
    \A name \in DOMAIN collections :
        \A i, j \in 1..Len(collections[name].ids) :
            i # j => collections[name].ids[i] # collections[name].ids[j]

C2_Witness ==
    /\ lastOp.op = "add" /\ lastOp.chunks = <<c0b, c0a>> /\ lastOp.sizeBefore = 1
    /\ SizeOf(collections, lastOp.user) = 2
    /\ collections[CollectionName(lastOp.user)].documents[2] = "beta"
    /\ collections[CollectionName(lastOp.user)].ids[2] = ChunkId(lastOp.doc, 0)

\* C3: add_document_chunks returns the number of chunks it appended to the
\* collection; chunks skipped because their id was present are not counted.
C3_ReturnsAppended ==
    lastOp.op = "add" =>
        lastOp.ret = SizeOf(collections, lastOp.user) - lastOp.sizeBefore

\* C4: a second add_document_chunks call with the same user, document and
\* chunks leaves the collections exactly as the first call left them.
C4_Idempotent == [][lastOp'.repeats => collections' = collections]_vars

C4_Witness ==
    /\ lastOp.repeats /\ Len(lastOp.chunks) = 2
    /\ SizeOf(collections, lastOp.user) >= 2

\* C5: for every text, chunk_size > 0 and 0 <= overlap < chunk_size the loop
\* of chunk_text terminates: start strictly increases on every iteration, also
\* when the chosen separator lies within the first overlap characters of the
\* window.
C5_StartIncreases == [][pc = "loop" => start' > start]_vars

\* every character of the text that is not whitespace lies in the window of
\* some returned chunk
Covered ==
    \A i \in 1..Len(text) :
        text[i] \notin Whitespace =>
            \E k \in 1..Len(chunks) :
                chunks[k].start_char <= i - 1 /\ i - 1 < chunks[k].end_char

C7_DeleteExact ==
    [][lastOp'.op = "delete" =>
        /\ StatsOf(collections', lastOp'.user)
             = StatsOf(collections, lastOp'.user)
               - CountDoc(collections, lastOp'.user, lastOp'.doc)
        /\ CountDoc(collections', lastOp'.user, lastOp'.doc) = 0]_vars

C7_Witness ==
    /\ lastOp.op = "delete"
    /\ lastOp.sizeBefore - SizeOf(collections, lastOp.user) >= 2
    /\ SizeOf(collections, lastOp.user) >= 1

SortedDesc(results) ==
    \A i, j \in 1..Len(results) :
        i < j => SimGE(results[i].relevance_score, results[j].relevance_score)

\* C8 as stated: for any n_results, search returns at most n_results items
\* (no item at all when n_results is negative), ordered by descending
\* relevance_score.
C8_AtMostNSorted ==
    lastOp.op = "search" =>
        /\ Len(lastOp.ret) <= Max(lastOp.n, 0)
        /\ SortedDesc(lastOp.ret)

\* C8 as amended: search returns its results ordered by descending
\* relevance_score, and at most n_results of them when n_results >= 0.
C8_AtMostNSortedNonNegative ==
    lastOp.op = "search" =>
        /\ lastOp.n >= 0 => Len(lastOp.ret) <= lastOp.n
        /\ SortedDesc(lastOp.ret)

\* a search cut to two results, the better one stored behind the other
C8_Witness ==
    /\ lastOp.op = "search" /\ lastOp.n = 2 /\ Len(lastOp.ret) = 2
    /\ SizeOf(collections, lastOp.user) = 3
    /\ SimGT(lastOp.ret[1].relevance_score, lastOp.ret[2].relevance_score)
    /\ lastOp.ret[1].metadata = collections[CollectionName(lastOp.user)].metadatas[2]
    /\ lastOp.ret[2].metadata = collections[CollectionName(lastOp.user)].metadatas[1]

\* C9 as stated: a search called with a subject_filter returns only results
\* whose metadata subject equals the filter.
C9_OnlyFilterSubject ==
    (lastOp.op = "search" /\ lastOp.filter # None) =>
        \A i \in 1..Len(lastOp.ret) : lastOp.ret[i].metadata.subject = lastOp.filter

\* C9 as amended: a search called with a non-empty subject_filter returns
\* only results whose metadata subject equals the filter.
C9_OnlyNonEmptyFilterSubject ==
    (lastOp.op = "search" /\ Truthy(lastOp.filter)) =>
        \A i \in 1..Len(lastOp.ret) : lastOp.ret[i].metadata.subject = lastOp.filter

C9_Witness ==
    /\ lastOp.op = "search" /\ lastOp.filter = "math" /\ Len(lastOp.ret) >= 1
    /\ \E i \in 1..SizeOf(collections, lastOp.user) :
          collections[CollectionName(lastOp.user)].metadatas[i].subject = "history"

\* C10: a call for one user leaves the collection of every other user as it
\* was, and a search for a user returns only texts ingested for that user,
\* also when both users ingest the same document_id.
C10_TenantIsolation ==
    /\ [][\A b \in Tenants : b # lastOp'.user =>
             /\ (CollectionName(b) \in DOMAIN collections')
                  <=> (CollectionName(b) \in DOMAIN collections)
             /\ CollectionName(b) \in DOMAIN collections =>
                  collections'[CollectionName(b)] = collections[CollectionName(b)]]_vars
    /\ [](lastOp.op = "search" =>
             \A i \in 1..Len(lastOp.ret) : lastOp.ret[i].text \in TextsOf(lastOp.user))

C10_Witness ==
    /\ lastOp.op = "search" /\ Len(lastOp.ret) >= 1
    /\ \A b \in Tenants :
          /\ CollectionName(b) \in DOMAIN collections
          /\ InSeq(ChunkId(1, 0), collections[CollectionName(b)].ids)

\* C11: a collection never holds embeddings of different lengths: after any
\* sequence of add_document_chunks calls, with the remote embedding call free
\* to succeed for some chunks and to fail for others, all vectors of one
\* collection have the same number of components.
C11_SameDimension ==
    \A k \in DOMAIN collections :
        \A i, j \in 1..Len(collections[k].embeddings) :
            Len(collections[k].embeddings[i]) = Len(collections[k].embeddings[j])

\* the four lists of a collection have one length
Aligned(col) ==
    /\ Len(col.ids) = Len(col.documents)
    /\ Len(col.ids) = Len(col.embeddings)
    /\ Len(col.ids) = Len(col.metadatas)

\* handler t is between the first and the last statement of a call on the store
InsideStore(t) ==
    tasks[t].pc \notin {"idle", "await_read", "add_call", "delete_call",
                        "search_call", "done"}

\* the statements that read the lists taking them to be aligned: the membership
\* test of add_document_chunks, the scan and the first pop of delete_document,
\* the enumeration of search
ReadPoints == {"add_check", "delete_scan", "pop_ids", "search_enum"}

\* C12: the executions of add_document_chunks, delete_document and search on a
\* tenant's collection exclude each other under every interleaving of the
\* request handlers: no two handlers are inside a call on the store at once,
\* and a handler about to read the lists finds the four of them of one length.
C12_MutuallyExclusive ==
    /\ \A t, u \in 1..MaxTasks :
          t # u => ~(InsideStore(t) /\ InsideStore(u))
    /\ \A t \in 1..MaxTasks :
          tasks[t].pc \in ReadPoints => Aligned(WebCollection)

\* an upload is half way through its appends, the lists being of different
\* lengths, while the handler of another request waits for the event loop
C12_Witness ==
    \E t, u \in 1..MaxTasks :
        /\ tasks[t].pc = "add_embeddings"
        /\ ~Aligned(WebCollection)
        /\ tasks[u].pc \in {"search_call", "delete_call", "await_read"}

(***************************************************************************)
(* Persistence across restarts and crashes                                 *)
(***************************************************************************)
\* one tenant ingesting and deleting two documents on a file system whose
\* writes can fail
PersistDomain ==
    [users |-> {1}, docs |-> {1, 2},
     batches |-> [u \in {1} |-> {<<c0a>>, <<c0a, c1b>>}],
     subjects |-> {None}, queries |-> {"alpha"}, ns |-> {1}, filters |-> {None},
     saves |-> {"ok", "fail", "torn"}]

InitPersist == StoreInit({FALSE}) /\ ChunkIdle /\ WebIdle

NextPersist ==
    \/ StoreNext(PersistDomain)
    \/ Restart
    \/ \E u \in PersistDomain.users, d \in PersistDomain.docs, f \in Filenames,
          point \in CrashPoints :
          \E chs \in PersistDomain.batches[u] :
            \E oks \in OkChoices(Len(chs)) :
              CrashInAddDocumentChunks(u, d, chs, f, None, oks, point)
    \/ \E u \in PersistDomain.users, d \in PersistDomain.docs, point \in CrashPoints :
          CrashInDeleteDocument(u, d, point)

SpecPersist == InitPersist /\ [][NextPersist]_vars

\* collections_index.json exists, parses, and holds exactly cols
FileHolds(cols) == disk.exists /\ disk.valid /\ disk.data = JsonDump(cols)

\* C13: persistence round-trips: as long as every write of the index file has
\* succeeded, the file holds the in-memory collections after each completed
\* call, and a new VectorStore constructed on the same persist_dir has
\* collections identical to those held just before the restart.
C13_RoundTrip ==
    /\ [](hist.writesOk /\ collections # NoCollections => FileHolds(collections))
    /\ [][lastOp'.op = "restart" /\ hist.writesOk => collections' = collections]_vars

\* a store holding two chunks has been restarted and holds what it held before
C13_Witness ==
    /\ lastOp.op = "restart"
    /\ hist.writesOk
    /\ SizeOf(collections, 1) >= 2
    /\ collections = lastOp.mem

\* C14: if the process dies during a mutating call and is restarted, the
\* reloaded state differs from the state the dead process held by at most that
\* call: every collection that held chunks before the call is reloaded either
\* as the call left it or as it was before the call, so every earlier mutation
\* survives. Stated for the runs in which every earlier write succeeded.
C14_LosesAtMostLast ==
    [][lastOp'.op \in {"crash_add", "crash_delete"} /\ hist.writesOk =>
         \A k \in DOMAIN collections :
            collections[k].ids # <<>> =>
               /\ k \in DOMAIN collections'
               /\ \/ collections'[k] = collections[k]
                  \/ collections'[k] = lastOp'.mem[k]]_vars

\* the handling of a failed write by the call that made it: add_document_chunks
\* returns its count and the collection holds every chunk id of the batch,
\* delete_document returns True and the collection holds nothing of the document
CompletedInMemory(op, cols) ==
    LET col == cols[CollectionName(op.user)] IN
    CASE op.op = "add" ->
            /\ op.ret = Len(op.chunks)
            /\ \A i \in 1..Len(op.chunks) :
                  InSeq(ChunkId(op.doc, op.chunks[i].chunk_index), col.ids)
      [] op.op = "delete" ->
            /\ op.ret = TRUE
            /\ CountDoc(cols, op.user, op.doc) = 0
      [] OTHER -> TRUE

\* C20: when a write of the index file fails, the mutating call still completes
\* on the in-memory state and returns its normal result, and the next write
\* that succeeds leaves a file equal to the whole in-memory state, the
\* mutations whose writes failed included.
C20_FailedWriteReconciled ==
    [][/\ lastOp'.wrote \in {"fail", "torn"} => CompletedInMemory(lastOp', collections')
       /\ lastOp'.wrote = "ok" =>
             /\ disk'.exists /\ disk'.valid
             /\ disk'.data = JsonDump(collections')]_vars

\* a delete whose write succeeded, after a write that failed, has left a file
\* that holds the in-memory state, the chunks of the other document included
C20_Witness ==
    /\ lastOp.op = "delete"
    /\ lastOp.wrote = "ok"
    /\ ~hist.writesOk
    /\ SizeOf(collections, 1) >= 1
    /\ FileHolds(collections)

(***************************************************************************)
(* Failures of the embedding provider                                      *)
(***************************************************************************)
\* chunk i of the batch of an add is one the call had to store: its id was not
\* in the collection before the call and no earlier chunk of the batch has it
NewInBatch(op, col, i) ==
    LET id == ChunkId(op.doc, op.chunks[i].chunk_index) IN
    /\ \A p \in 1..op.sizeBefore : col.ids[p] # id
    /\ \A j \in 1..(i - 1) : ChunkId(op.doc, op.chunks[j].chunk_index) # id

\* the i-th remote embedding call of a store call returned no vector
RemoteFailed(op, i) == hasClient /\ ~op.remote[i]

\* C15: a failure of the remote embedding call is never surfaced to the caller
\* of add_document_chunks or search: add_document_chunks returns its count and
\* has stored every affected chunk with the local hash embedding of its text,
\* and search returns the ranking computed with the hash embedding of the query.
C15_ProviderFailureRecovered ==
    LET col == collections[CollectionName(lastOp.user)] IN
    /\ lastOp.op = "add" =>
          /\ lastOp.ret = Len(lastOp.chunks)
          /\ \A i \in 1..Len(lastOp.chunks) :
                RemoteFailed(lastOp, i) /\ NewInBatch(lastOp, col, i) =>
                   \E p \in (lastOp.sizeBefore + 1)..Len(col.ids) :
                      /\ col.ids[p] = ChunkId(lastOp.doc, lastOp.chunks[i].chunk_index)
                      /\ col.documents[p] = lastOp.chunks[i].text
                      /\ col.embeddings[p] = HashVec(lastOp.chunks[i].text)
    /\ lastOp.op = "search" /\ RemoteFailed(lastOp, 1) =>
          lastOp.ret = IF col.documents = <<>> THEN <<>>
                       ELSE RankedResults(col, HashVec(lastOp.query),
                                          lastOp.n, lastOp.filter)

\* an add of two chunks in which the remote call served the first chunk and
\* failed for the second, which is stored with its hash embedding
C15_Witness ==
    /\ lastOp.op = "add"
    /\ Len(lastOp.chunks) = 2
    /\ hasClient /\ lastOp.remote = <<TRUE, FALSE>>
    /\ lastOp.sizeBefore = 0
    /\ SizeOf(collections, lastOp.user) = 2
    /\ collections[CollectionName(lastOp.user)].embeddings[2]
          = HashVec(lastOp.chunks[2].text)

\* some stored entry passes the subject filter
SomePasses(col, subject_filter) ==
    \E p \in 1..Len(col.metadatas) : PassesFilter(subject_filter, col.metadatas[p])

\* C16 as stated: when the embedding of the query fails during a search on a
\* collection that holds chunks, search returns the empty list, and no stored
\* chunk. Taken for the searches that ask for at least one result and give no
\* subject filter.
C16_EmptyOnQueryFailure ==
    (/\ lastOp.op = "search"
     /\ RemoteFailed(lastOp, 1)
     /\ SizeOf(collections, lastOp.user) > 0
     /\ lastOp.n >= 1
     /\ lastOp.filter = None)
        => lastOp.ret = <<>>

\* C16, amended: when the remote embedding call for the query fails during a
\* search on a collection that holds chunks, search ranks with the local hash
\* embedding of the query: for n_results >= 1 and a filter that some stored
\* chunk passes it returns at least one stored chunk, and it scores every
\* returned chunk by the cosine similarity of the query's hash embedding and
\* the chunk's stored vector, 0 when the two differ in length.
C16_FallbackRanksStored ==
    LET col == collections[CollectionName(lastOp.user)] IN
    (/\ lastOp.op = "search"
     /\ RemoteFailed(lastOp, 1)
     /\ SizeOf(collections, lastOp.user) > 0)
        => /\ lastOp.n >= 1 /\ SomePasses(col, lastOp.filter) => Len(lastOp.ret) >= 1
           /\ \A r \in 1..Len(lastOp.ret) :
                 \E p \in 1..Len(col.documents) :
                    /\ lastOp.ret[r].text = col.documents[p]
                    /\ lastOp.ret[r].metadata = col.metadatas[p]
                    /\ lastOp.ret[r].relevance_score =
                          CosineSimilarity(HashVec(lastOp.query), col.embeddings[p])
                    /\ Len(col.embeddings[p]) # HashDim =>
                          lastOp.ret[r].relevance_score = ZeroSim

\* a search whose remote call failed has returned two stored chunks, one held
\* with a vector of the remote service and scored 0, one held with a hash vector
C16_Witness ==
    LET col == collections[CollectionName(lastOp.user)] IN
    /\ lastOp.op = "search"
    /\ RemoteFailed(lastOp, 1)
    /\ Len(lastOp.ret) = 2
    /\ \E p, q \in 1..Len(col.embeddings) :
          Len(col.embeddings[p]) = RemoteDim /\ Len(col.embeddings[q]) = HashDim
    /\ \E r \in 1..2 : lastOp.ret[r].relevance_score = ZeroSim
    /\ \E r \in 1..2 : lastOp.ret[r].relevance_score # ZeroSim

\* C17: a chunk whose embedding length differs from the dimensionality the
\* collection has established (the length of its first vector) is rejected on
\* its own: after add_document_chunks no vector the call stored differs in
\* length from the first, and every new chunk of the batch whose embedding has
\* the established length is stored.
C17_MismatchRejected ==
    LET col == collections[CollectionName(lastOp.user)] IN
    lastOp.op = "add" =>
       /\ \A p \in (lastOp.sizeBefore + 1)..Len(col.embeddings) :
             Len(col.embeddings[p]) = Len(col.embeddings[1])
       /\ \A i \in 1..Len(lastOp.chunks) :
             (/\ NewInBatch(lastOp, col, i)
              /\ col.embeddings # <<>>
              /\ Len(GetEmbedding(hasClient, lastOp.chunks[i].text, lastOp.remote[i]))
                    = Len(col.embeddings[1]))
                => InSeq(ChunkId(lastOp.doc, lastOp.chunks[i].chunk_index), col.ids)

\* C18: the store never rejects an unknown tenant: a call made for a user who
\* has no collection creates an empty one and returns its normal result, [] from
\* search, total_chunks 0 from get_collection_stats, True from delete_document,
\* the count from add_document_chunks, which stores the batch.
C18_UnknownTenantServed ==
    LET name == CollectionName(lastOp.user) IN
    lastOp.created =>
       /\ name \in DOMAIN collections
       /\ lastOp.sizeBefore = 0
       /\ CASE lastOp.op = "search" ->
                  lastOp.ret = <<>> /\ collections[name] = EmptyCollection(lastOp.user)
            [] lastOp.op = "stats" ->
                  /\ lastOp.ret = [total_chunks |-> 0]
                  /\ collections[name] = EmptyCollection(lastOp.user)
            [] lastOp.op = "delete" ->
                  lastOp.ret = TRUE /\ collections[name] = EmptyCollection(lastOp.user)
            [] lastOp.op = "get_or_create" ->
                  lastOp.ret = name /\ collections[name] = EmptyCollection(lastOp.user)
            [] lastOp.op = "add" ->
                  /\ lastOp.ret = Len(lastOp.chunks)
                  /\ \A i \in 1..Len(lastOp.chunks) :
                        InSeq(ChunkId(lastOp.doc, lastOp.chunks[i].chunk_index),
                              collections[name].ids)
            [] OTHER -> TRUE

\* delete_document for a user without a collection has returned True and left
\* an empty collection, while another tenant's collection holds chunks
C18_Witness ==
    /\ lastOp.created
    /\ lastOp.op = "delete"
    /\ lastOp.ret = TRUE
    /\ collections[CollectionName(lastOp.user)] = EmptyCollection(lastOp.user)
    /\ \E u \in Tenants : u # lastOp.user /\ SizeOf(collections, u) > 0

\* C19: search on a tenant whose collection holds no chunks returns the empty
\* list for every query, n_results and subject_filter, also once all of the
\* tenant's documents have been deleted.
C19_EmptyCollectionEmptyResult ==
    lastOp.op = "search" /\ SizeOf(collections, lastOp.user) = 0 => lastOp.ret = <<>>

\* a filtered search has returned [] on a collection that held chunks before
\* and holds none now
C19_Witness ==
    /\ lastOp.op = "search"
    /\ lastOp.filter = "math"
    /\ lastOp.n = 2
    /\ CollectionName(lastOp.user) \in hist.stored
    /\ SizeOf(collections, lastOp.user) = 0
    /\ lastOp.ret = <<>>

(***************************************************************************)
(* chunk_text: short texts, indices, separators, offsets                   *)
(***************************************************************************)
\* the text has a character that strip() keeps
HasContent(t) == \E j \in 1..Len(t) : t[j] \notin Whitespace

\* C21 as stated: chunk_text applied to a text shorter than chunk_size yields
\* exactly one chunk. Taken for the texts of at least one character.
C21_ShortTextOneChunk ==
    pc = "done" /\ 0 < Len(text) /\ Len(text) < chunk_size => Len(chunks) = 1

\* C21, amended: chunk_text applied to a text shorter than chunk_size yields
\* exactly one chunk, the stripped text, when the text has a character that is
\* not whitespace, and no chunk when the text is empty or all whitespace.
C21_ShortTextOneChunkIfContent ==
    pc = "done" /\ Len(text) < chunk_size =>
       IF HasContent(text)
       THEN /\ Len(chunks) = 1
            /\ chunks[1].text = Strip(text)
            /\ chunks[1].start_char = 0
       ELSE chunks = <<>>

\* a text of three characters with whitespace at both ends, chunked with
\* chunk_size 4, has given one chunk of one character
C21_Witness ==
    /\ pc = "done"
    /\ Len(text) = 3 /\ chunk_size = 4
    /\ text[1] = " " /\ text[3] = "\n"
    /\ Len(chunks) = 1
    /\ Len(chunks[1].text) = 1

(***************************************************************************)
(* chunk_text with its default sizes on documents of 2500 characters       *)
(***************************************************************************)
DefaultChunkSize == 1000
DefaultOverlap == 200

\* offsets (from 0) at which the documents studied hold the separator ". "
SepOffsets == {600, 1300, 1700, 2000}

\* offsets (from 0) at which they hold a lone space
SpaceOffsets == {0, 999, 2499}

\* a document of 2500 characters: the character fill everywhere, but ". " at
\* the offsets of seps and " " at the offsets of spaces
Document(fill, seps, spaces) ==
    [i \in 1..2500 |->
        IF (i - 1) \in seps THEN "."
        ELSE IF (i - 2) \in seps \/ (i - 1) \in spaces THEN " "
        ELSE fill]

Documents ==
    {Document(fill, seps, spaces) :
        fill \in {"a", " "}, seps \in SUBSET SepOffsets, spaces \in SUBSET SpaceOffsets}

\* chunk_text(text) with the default chunk_size and overlap
ScenarioInit ==
    /\ text \in Documents
    /\ chunk_size = DefaultChunkSize
    /\ overlap = DefaultOverlap
    /\ start = 0
    /\ chunks = <<>>
    /\ pc = "loop"
    /\ iters = 0

InitScenario == ScenarioInit /\ StoreIdle /\ WebIdle

SpecScenario == InitScenario /\ [][NextChunk]_vars

\* every pair of consecutive chunks shares at least ov characters of the source
SharesOverlap(chs, ov) ==
    \A i \in 1..(Len(chs) - 1) : chs[i + 1].start_char <= chs[i].end_char - ov

\* the separator sep occurs in t
Occurs(t, sep) == RFind(t, sep) # -1

SeparatorFree(t) == \A k \in 1..Len(Separators) : ~Occurs(t, Separators[k])

\* C22 as stated: chunk_text on a document of 2500 characters with
\* chunk_size 1000 and overlap 200 returns 3 chunks, and every two consecutive
\* chunks share at least 200 characters of the source.
C22_ThreeChunksOverlapping ==
    pc = "done" /\ Len(text) = 2500 =>
       Len(chunks) = 3 /\ SharesOverlap(chunks, DefaultOverlap)

\* C22, amended: on a document of 2500 characters that holds none of the
\* separators and has a non-whitespace character in each of the windows
\* [0, 1000), [800, 1800) and [1600, 2500), chunk_text with chunk_size 1000 and
\* overlap 200 returns 3 chunks, which start at 0, 800 and 1600, and each two
\* consecutive chunks share exactly 200 characters of the source.
C22_ThreeChunksWhenUnbroken ==
    (/\ pc = "done" /\ Len(text) = 2500
     /\ SeparatorFree(text)
     /\ \A w \in {0, 800, 1600} : HasContent(Slice(text, w, w + DefaultChunkSize)))
       => /\ Len(chunks) = 3
          /\ \A i \in 1..3 : chunks[i].start_char = 800 * (i - 1)
          /\ \A i \in 1..2 :
                chunks[i + 1].start_char = chunks[i].end_char - DefaultOverlap

\* a document without separator, with spaces at its two ends, has given three
\* chunks, the first stripped of its leading space
C22_Witness ==
    /\ pc = "done" /\ Len(text) = 2500
    /\ SeparatorFree(text)
    /\ text[1] = " " /\ text[2500] = " "
    /\ Len(chunks) = 3
    /\ Len(chunks[1].text) = 999
    /\ chunks[3].start_char = 1600

(***************************************************************************)
(* Ties in search                                                          *)
(***************************************************************************)
\* the position in the collection of the entry a search result was made from
PosOf(col, result) ==
    CHOOSE p \in 1..Len(col.metadatas) :
        col.metadatas[p] = result.metadata /\ col.documents[p] = result.text

\* s1 = s2 as numbers
SimEq(s1, s2) == SimGE(s1, s2) /\ SimGE(s2, s1)

\* C23: search breaks ties by insertion order: a stored chunk that passes the
\* filter, has the same similarity to the query as a returned chunk and was
\* added before it is returned too, ahead of it; so of two equals the earlier
\* comes first and is the one kept when n_results cuts between them.
C23_TiesByInsertionOrder ==
    LET col == collections[CollectionName(lastOp.user)]
        qe == GetEmbedding(hasClient, lastOp.query, lastOp.remote[1])
    IN
    lastOp.op = "search" =>
       \A r \in 1..Len(lastOp.ret) :
          \A q \in 1..Len(col.ids) :
             (/\ q < PosOf(col, lastOp.ret[r])
              /\ PassesFilter(lastOp.filter, col.metadatas[q])
              /\ SimEq(CosineSimilarity(qe, col.embeddings[q]),
                       lastOp.ret[r].relevance_score))
                => \E r2 \in 1..(r - 1) : PosOf(col, lastOp.ret[r2]) = q

\* a search for one result on a collection whose first and third entry are
\* equally and positively similar to the query has returned the first
C23_Witness ==
    LET col == collections[CollectionName(lastOp.user)]
        qe == GetEmbedding(hasClient, lastOp.query, lastOp.remote[1])
    IN
    /\ lastOp.op = "search" /\ lastOp.n = 1
    /\ Len(lastOp.ret) = 1
    /\ Len(col.ids) = 3
    /\ PosOf(col, lastOp.ret[1]) = 1
    /\ PassesFilter(lastOp.filter, col.metadatas[3])
    /\ lastOp.ret[1].relevance_score # ZeroSim
    /\ SimEq(CosineSimilarity(qe, col.embeddings[3]), lastOp.ret[1].relevance_score)

(***************************************************************************)
(* Records of degraded mode                                                *)
(***************************************************************************)
\* What one _get_embedding call records besides the vector it returns: none
\* of its three paths logs, prints, counts or stores anything, and the except
\* clause binds no exception object.
DegradedEvents(client, t, remoteOk) ==
    IF ~client THEN {}
    ELSE IF remoteOk THEN {} ELSE {}

\* the records left by the embedding calls of the store call op
EventsOf(op) ==
    UNION {DegradedEvents(hasClient, "", op.remote[i]) : i \in 1..Len(op.remote)}

\* C24: whenever the local fallback embedding is used because the remote
\* embedding call failed, a degraded-mode event is recorded: a store call, one
\* of whose remote embedding calls failed, has left such a record.
C24_DegradedModeRecorded ==
    LET col == collections[CollectionName(lastOp.user)] IN
    /\ lastOp.op = "add" =>
          \A i \in 1..Len(lastOp.chunks) :
             RemoteFailed(lastOp, i) /\ NewInBatch(lastOp, col, i)
                => EventsOf(lastOp) # {}
    /\ lastOp.op = "search" /\ col.documents # <<>> /\ RemoteFailed(lastOp, 1)
          => EventsOf(lastOp) # {}

(***************************************************************************)
(* Sequence indexes of the chunks                                          *)
(***************************************************************************)
\* text[start:end].strip() of the window the next iteration cuts
WindowText == Strip(Slice(text, start, WindowEnd(text, start, chunk_size)))

\* C25: the chunk_index values of the chunks are exactly 0, 1, ..., n-1 in
\* emission order: every iteration leaves the list numbered so, a window whose
\* stripped text is empty adds no chunk, and any other window adds one chunk
\* behind the chunks already emitted.
C25_IndexesDense ==
    [][ChunkStep =>
          /\ \A i \in 1..Len(chunks') : chunks'[i].chunk_index = i - 1
          /\ IF WindowText = <<>> THEN chunks' = chunks
             ELSE /\ Len(chunks') = Len(chunks) + 1
                  /\ SubSeq(chunks', 1, Len(chunks)) = chunks]_vars

\* "a a" cut into windows of one character: the window holding the space was
\* skipped, and the chunk at offset 2 is the second chunk
C25_Witness ==
    /\ pc = "done" /\ chunk_size = 1 /\ iters = 3
    /\ Len(chunks) = 2
    /\ chunks[2].start_char = 2
    /\ chunks[2].chunk_index = 1

(***************************************************************************)
(* Where a window ends                                                     *)
(***************************************************************************)
\* the offsets (from 0) in w at which sep occurs
Offsets(w, sep) ==
    {j \in 0..(Len(w) - Len(sep)) : \A k \in 1..Len(sep) : w[j + k] = sep[k]}

\* the priorities (1 the highest) of the separators that occur in w
Present(w) == {i \in 1..Len(Separators) : Offsets(w, Separators[i]) # {}}

\* the end of the window that starts at st and has the naive end st + size:
\* just behind the last occurrence of the best separator present in
\* text[st:st + size], the naive end if there is none
PreferredEnd(t, st, size) ==
    LET w == Slice(t, st, st + size)
        best == CHOOSE i \in Present(w) : \A k \in Present(w) : i <= k
        sep == Separators[best]
        last == CHOOSE j \in Offsets(w, sep) : \A h \in Offsets(w, sep) : h <= j
    IN IF Present(w) = {} THEN st + size ELSE st + last + Len(sep)

\* C26: when the naive end start + chunk_size lies before the text's end, the
\* window ends immediately after the last occurrence in it of the
\* highest-priority separator that occurs in it at all (". ", then ".\n", then
\* "\n\n"), even if a lower-priority separator occurs later, and at the naive
\* end when no separator occurs: the chunk the iteration emits ends there and
\* the next window starts overlap characters before that place.
C26_SeparatorPriority ==
    [][ChunkStep /\ start + chunk_size < Len(text) =>
          LET end == PreferredEnd(text, start, chunk_size) IN
          /\ start' = end - overlap
          /\ Len(chunks') > Len(chunks) =>
                /\ chunks'[Len(chunks')].end_char = end
                /\ chunks'[Len(chunks')].text = Strip(Slice(text, start, end))]_vars

\* the text begins ". \n\n" and is cut with chunk_size 4: the first window
\* holds ". " at offset 0 and the lower-priority "\n\n" at offset 2, and the
\* first chunk ends at 2
C26_Witness ==
    /\ chunk_size = 4 /\ Len(text) = 5
    /\ SubSeq(text, 1, 4) = <<".", " ", "\n", "\n">>
    /\ Len(chunks) >= 1
    /\ chunks[1].start_char = 0
    /\ chunks[1].end_char = 2

(***************************************************************************)
(* Entries of a collection                                                 *)
(***************************************************************************)
\* the entries of a collection: what the four lists hold at each position
Entries(col) ==
    [i \in 1..Len(col.ids) |->
        [id |-> col.ids[i], text |-> col.documents[i],
         embedding |-> col.embeddings[i], metadata |-> col.metadatas[i]]]

\* the entries of the collection called name, none if there is no such collection
EntriesOf(cols, name) == IF name \in DOMAIN cols THEN Entries(cols[name]) ELSE <<>>

\* a can be had from b by removing elements
RECURSIVE IsSubseq(_, _)
IsSubseq(a, b) ==
    IF a = <<>> THEN TRUE
    ELSE IF b = <<>> THEN FALSE
    ELSE IF Head(a) = Head(b) THEN IsSubseq(Tail(a), Tail(b))
    ELSE IsSubseq(a, Tail(b))

\* entry e is what add_document_chunks appends for chunk i of the call op
AppendedFor(e, op, i) ==
    LET chunk == op.chunks[i] IN
    /\ e.id = ChunkId(op.doc, chunk.chunk_index)
    /\ e.text = chunk.text
    /\ e.embedding = GetEmbedding(hasClient, chunk.text, op.remote[i])
    /\ \E f \in Filenames :
          e.metadata = Metadata(op.doc, f, op.subject, chunk.chunk_index)

\* C27: ids and metadata are aligned position by position, and the text and
\* the embedding at a position are those appended together with its id: after
\* every step ids[i] is "doc_<d>_chunk_<k>" for d, k the document_id and
\* chunk_index of metadatas[i], and embeddings[i] is an embedding of
\* documents[i]; add_document_chunks keeps the entries there were and appends
\* entries made of one chunk of its batch each; every other call keeps entries
\* whole, leaving a subsequence of the entries there were.
C27_EntriesStayTogether ==
    [][/\ \A name \in DOMAIN collections' :
             \A i \in 1..Len(collections'[name].ids) :
                LET col == collections'[name] IN
                /\ col.ids[i] = "doc_" \o col.metadatas[i].document_id
                                   \o "_chunk_" \o ToString(col.metadatas[i].chunk_index)
                /\ col.embeddings[i] \in {HashVec(col.documents[i]),
                                          RemoteVec(col.documents[i])}
       /\ \A name \in DOMAIN collections' :
             LET old == EntriesOf(collections, name)
                 new == EntriesOf(collections', name)
             IN IF lastOp'.op = "add" /\ name = CollectionName(lastOp'.user)
                THEN /\ SubSeq(new, 1, Len(old)) = old
                     /\ \A p \in (Len(old) + 1)..Len(new) :
                           \E i \in 1..Len(lastOp'.chunks) :
                              AppendedFor(new[p], lastOp', i)
                ELSE IsSubseq(new, old)]_vars

\* document 1 was deleted from a collection of three entries, and the entry of
\* document 2 that stood behind its two entries is the one entry left, whole
C27_Witness ==
    LET col == collections[CollectionName(lastOp.user)] IN
    /\ lastOp.op = "delete" /\ lastOp.doc = 1 /\ lastOp.ret = TRUE
    /\ lastOp.sizeBefore = 3
    /\ Entries(col) = << [id |-> "doc_2_chunk_0", text |-> "alpha",
                          embedding |-> col.embeddings[1],
                          metadata |-> col.metadatas[1]] >>
    /\ col.metadatas[1].document_id = "2"
    /\ col.metadatas[1].chunk_index = 0

(***************************************************************************)
(* What delete_document leaves alone                                       *)
(***************************************************************************)
\* the entries of a sequence of entries that belong to other documents
OfOtherDocuments(entries, document_id) ==
    SelectSeq(entries, LAMBDA e : e.metadata.document_id # ToString(document_id))

\* C28: delete_document(user, d) leaves every entry of another document
\* untouched: the entries after the call are the entries of other documents
\* there were before it, each with its id, text, embedding and metadata and in
\* the same order, and no other collection changes; deleting a document that
\* has no entries leaves the collection as it was and returns True.
C28_DeleteLeavesOthers ==
    [][lastOp'.op = "delete" =>
          LET name == CollectionName(lastOp'.user)
              old == EntriesOf(collections, name)
              new == EntriesOf(collections', name)
          IN
          /\ new = OfOtherDocuments(old, lastOp'.doc)
          /\ \A other \in DOMAIN collections \ {name} :
                /\ other \in DOMAIN collections'
                /\ collections'[other] = collections[other]
          /\ CountDoc(collections, lastOp'.user, lastOp'.doc) = 0 =>
                /\ new = old
                /\ lastOp'.ret = TRUE]_vars

\* document 2 was deleted from a collection of three entries and the two
\* entries of document 1 are left
C28_Witness ==
    LET col == collections[CollectionName(lastOp.user)] IN
    /\ lastOp.op = "delete" /\ lastOp.doc = 2 /\ lastOp.ret = TRUE
    /\ lastOp.sizeBefore = 3
    /\ col.ids = <<"doc_1_chunk_0", "doc_1_chunk_1">>
    /\ col.documents = <<"alpha", "beta">>
    /\ \A i \in 1..2 : col.metadatas[i].document_id = "1"

(***************************************************************************)
(* Offsets of the chunks                                                   *)
(***************************************************************************)
\* C29: every chunk chunk_text returns has its offsets inside the text:
\* 0 <= start_char < end_char <= len(text).
C29_OffsetsInsideText ==
    pc = "done" =>
       \A i \in 1..Len(chunks) :
          /\ 0 <= chunks[i].start_char
          /\ chunks[i].start_char < chunks[i].end_char
          /\ chunks[i].end_char <= Len(text)

(***************************************************************************)
(* add_document_chunks called for one document by several requests         *)
(***************************************************************************)
\* upload_document after "await file.read()" where db.commit() and
\* db.refresh(doc) give the record the id d, an id another record may hold
UploadCommitAs(t, d) ==
    /\ At(t, "await_read")
    /\ Goto(t, "add_call", [tasks[t] EXCEPT !.doc = d])
    /\ UNCHANGED <<storeVars, chunkVars>>

\* the handlers, with the id of an uploaded document an input
NextSameDocument ==
    \E t \in 1..MaxTasks :
        \/ \E kind \in {"upload", "delete", "ask"}, d \in 1..MaxTasks :
              StartRequest(t, kind, d)
        \/ \E d \in 1..MaxTasks : UploadCommitAs(t, d)
        \/ AddCall(t)
        \/ AddCheck(t)
        \/ \E ok \in RemoteOutcomes : AddEmbed(t, ok)
        \/ AppendStep(t)
        \/ AddSave(t)
        \/ DeleteCall(t)
        \/ DeleteScan(t)
        \/ PopStep(t)
        \/ DeleteSave(t)
        \/ SearchCall(t)
        \/ \E ok \in RemoteOutcomes : SearchEmbed(t, ok)
        \/ SearchEnum(t)

SpecSameDocument == Init /\ [][NextSameDocument]_vars

\* handlers t1 and t2 both call add_document_chunks for the same document
SameDocument(t1, t2) ==
    /\ t1 # t2
    /\ tasks[t1].kind = "upload" /\ tasks[t2].kind = "upload"
    /\ tasks[t1].doc # 0
    /\ tasks[t1].doc = tasks[t2].doc

\* how often the id is stored in the collection
TimesStored(col, chunk_id) == Cardinality({p \in 1..Len(col.ids) : col.ids[p] = chunk_id})

====
